---- MODULE Spec2Model ----
(***************************************************************************)
(* Model of the LibreOffice conversion service (src/app.py): the           *)
(* DocumentConverter (format validation, staging, thread pool, external    *)
(* tool invocation), the /convert and /convert/batch endpoints and the     *)
(* background cleanup tasks, over a filesystem of paths.                   *)
(***************************************************************************)
EXTENDS Integers, Sequences, FiniteSets, TLC

(***************************************************************************)
(* Bounds of the model.                                                    *)
(***************************************************************************)
\* number of HTTP requests in a run
MaxRequests == 2
\* number of uploaded files read by the endpoints in a run
MaxUploads == 3
\* number of environment faults (failing filesystem calls, cancelled handlers)
\* in a run
MaxFaults == 1
\* the largest configured worker count
MaxWorkers == 2
\* the length of the longest text the external tool writes to stderr
MaxStderrLen == 3
\* the length of the longest filename handed to convert_document on its own
MaxNameLen == 5

(***************************************************************************)
(* Configuration (Config.__init__), with the values of the test            *)
(* configuration where the state space allows it.                          *)
(***************************************************************************)
WorkerCounts == 1..MaxWorkers
MaxFileSizeMB == 10
max_file_size == MaxFileSizeMB * 1024 * 1024
\* (a configuration may list the output format among the input formats)
input_formats == { <<"d", "o", "c">>, <<"t", "x", "t">>, <<"p", "d", "f">> }
output_format == <<"p", "d", "f">>
\* a path is a sequence of names, a name is a sequence of characters
temp_dir == << <<"t", "m", "p">> >>

Requests == 1..MaxRequests
\* the positions of the files of one request (a batch holds at most 2 x workers)
Items == 1..(MaxWorkers * 2)

None == <<>>

(***************************************************************************)
(* Strings: filenames, extensions and messages are sequences of           *)
(* characters (messages: of characters and fixed phrases).                 *)
(***************************************************************************)
Lower(c) ==
    CASE c = "D" -> "d"
      [] c = "O" -> "o"
      [] c = "C" -> "c"
      [] c = "A" -> "a"
      [] OTHER -> c

LowerStr(s) == [i \in 1..Len(s) |-> Lower(s[i])]

\* str.rfind('.'): the last index of a dot, 0 when there is none
\* (Python's -1; indices here start at 1)
RFindDot(s) ==
    IF \E i \in 1..Len(s) : s[i] = "."
    THEN CHOOSE i \in 1..Len(s) : s[i] = "." /\ \A j \in (i+1)..Len(s) : s[j] # "."
    ELSE 0

\* PurePath.suffix: name[i:] when the last dot is neither the first nor the
\* last character of the name, else ''
Suffix(name) ==
    LET i == RFindDot(name)
    IN  IF 1 < i /\ i < Len(name) THEN SubSeq(name, i, Len(name)) ELSE <<>>

\* PurePath.stem
Stem(name) ==
    LET i == RFindDot(name)
    IN  IF 1 < i /\ i < Len(name) THEN SubSeq(name, 1, i - 1) ELSE name

RECURSIVE LStripDot(_)
LStripDot(s) == IF s # <<>> /\ Head(s) = "." THEN LStripDot(Tail(s)) ELSE s

\* PurePath.name: the final component of the path, '' when there is none;
\* empty components and '.' components do not count. A component starts
\* after a '/' or at the start of the path and ends before the next '/'.
PathName(filename) ==
    LET n == Len(filename)
        Starts == { a \in 1..n :
                      /\ a = 1 \/ filename[a - 1] = "/"
                      /\ filename[a] # "/"
                      /\ ~(filename[a] = "." /\ (a = n \/ filename[a + 1] = "/")) }
    IN  IF Starts = {} THEN <<>>
        ELSE LET a == CHOOSE x \in Starts : \A y \in Starts : y <= x
                 b == CHOOSE x \in a..n :
                          /\ x = n \/ filename[x + 1] = "/"
                          /\ \A y \in a..x : filename[y] # "/"
             IN  SubSeq(filename, a, b)

\* (an extension compared as it is written)
GetFileExtensionKeepsCase(filename) == LStripDot(Suffix(PathName(filename)))

\* DocumentConverter._get_file_extension
GetFileExtension(filename) == LStripDot(LowerStr(Suffix(PathName(filename))))

\* DocumentConverter._validate_input_format
ValidateInputFormat(filename) == GetFileExtension(filename) \in input_formats

(***************************************************************************)
(* Paths.                                                                  *)
(***************************************************************************)
\* (an identifier taken from the position of the file in its request)
Uuid4FromItem(r, k) == ToString(k)

\* uuid.uuid4() rendered as text: a token no other call of the run gets
Uuid4(r, k) == ToString((r - 1) * (MaxWorkers * 2) + k)

FileIds == { Uuid4(r, k) : r \in Requests, k \in Items }

\* os.path.join(temp_dir, f"{file_id}_input.{ext}")
InputPath(file_id, ext) == Append(temp_dir, <<file_id, "_input", ".">> \o ext)

\* os.path.join(temp_dir, file_id)
OutputDir(file_id) == Append(temp_dir, <<file_id>>)

\* os.path.dirname
Dirname(p) == SubSeq(p, 1, Len(p) - 1)

Basename(p) == p[Len(p)]

EndsWith(s, t) ==
    Len(s) >= Len(t) /\ SubSeq(s, Len(s) - Len(t) + 1, Len(s)) = t


(***************************************************************************)
(* Inputs.                                                                 *)
(***************************************************************************)
\* an upload without a filename
NoFilename == <<>>

\* "a.DOC" (allowed once lower-cased), "a.exe" (not allowed), "a" (no extension)
Filenames == { <<"a", ".", "D", "O", "C">>, <<"a", ".", "e", "x", "e">>, <<"a">> }

\* the uploads of a run: a payload length and a filename
UploadSet ==
    { [size |-> max_file_size, filename |-> f] : f \in Filenames \cup {NoFilename} }
    \cup { [size |-> max_file_size + 1, filename |-> <<"a", ".", "D", "O", "C">>] }

\* the uploads of a batch
BatchUploadSet == { u \in UploadSet : u.filename # <<"a">> }

\* what the external tool does in one run: how it ends and the names of the
\* files it leaves in the output directory
\* (the converted document, named after the input file, and a stray file)
ToolFileName(input_path, kind) ==
    IF kind = "artifact" THEN Stem(Basename(input_path)) \o <<".">> \o output_format
    ELSE <<"l", "o", "g">>
ToolFiles == {"artifact", "other"}
\* result.stderr: a text of one character, or of the greatest length
StderrTexts == { [i \in 1..n |-> "e"] : n \in {1, MaxStderrLen} }
\* (`children`: the tool has started a process of its own that is still alive
\* when the timeout expires)
ToolRuns ==
    { [exit |-> "exit0", written |-> w, stderr |-> <<>>, children |-> FALSE] :
          w \in SUBSET ToolFiles }
    \cup { [exit |-> "exit1", written |-> {}, stderr |-> e, children |-> FALSE] :
          e \in StderrTexts }
    \cup { [exit |-> "timeout", written |-> {"artifact"}, stderr |-> <<>>, children |-> ch] :
          ch \in BOOLEAN }
    \cup { [exit |-> "spawn_error", written |-> {}, stderr |-> <<>>, children |-> FALSE] }

(***************************************************************************)
(* State.                                                                  *)
(***************************************************************************)
VARIABLES
    workers,   \* config.workers, read once at startup
    req,       \* the endpoint handler of each request
    call,      \* the convert_document call each request is awaiting
    job,       \* the work item of each file_id in the executor
    queue,     \* the executor's work queue
    fsFiles,   \* the files on disk
    fsDirs,    \* the directories on disk
    uploads,   \* files read so far
    faults     \* environment faults so far

vars == <<workers, req, call, job, queue, fsFiles, fsDirs, uploads, faults>>

NoResult == <<FALSE, <<>>, None>>

IdleCall ==
    [pc |-> "idle", filename |-> <<>>, item |-> 0, file_id |-> "", input_path |-> <<>>,
     result |-> NoResult, exc |-> <<>>, released |-> FALSE]

NewRequest ==
    [pc |-> "new", kind |-> "none", nfiles |-> 0, files |-> <<>>,
     status |-> 0, detail |-> <<>>, streamed |-> FALSE,
     tasks |-> <<>>, results |-> <<>>, bg |-> <<>>, ran |-> <<>>, warnings |-> 0]

NoJob ==
    [state |-> "none", input_path |-> <<>>, output_dir |-> <<>>, result |-> NoResult,
     exit |-> "", matches |-> {}, stderr |-> <<>>,
     slot |-> FALSE, behind |-> 0, procs |-> {}]

Init ==
    /\ workers \in WorkerCounts
    /\ req = [r \in Requests |-> NewRequest]
    /\ call = [r \in Requests |-> IdleCall]
    /\ job = [i \in FileIds |-> NoJob]
    /\ queue = <<>>
    /\ fsFiles = {}
    /\ fsDirs = {temp_dir}
    /\ uploads = 0
    /\ faults = 0

\* the outcomes of a filesystem call: it fails only while faults remain
Outcomes == IF faults < MaxFaults THEN {"ok", "fail"} ELSE {"ok"}

\* requests are numbered in the order in which they arrive
Arrives(r) == req[r].pc = "new" /\ (IF r = 1 THEN TRUE ELSE req[r - 1].pc # "new")

Running == { i \in FileIds : job[i].state = "running" }

\* the work items that hold a worker thread of the pool
Busy == { i \in FileIds : job[i].slot }

(***************************************************************************)
(* DocumentConverter.convert_document                                      *)
(***************************************************************************)
\* str(e) of the OSError of a failing filesystem call: the error text, and for
\* a call made on a path ("[Errno 13] Permission denied: '<path>'") the path
StrOSError(op, path) == <<op, ToString(path)>>

\* (a finally block that forgets the removal)
FinallyKeepsInput(r, c0, files, used) ==
    /\ fsFiles' = files
    /\ call' = [call EXCEPT ![r] = [c0 EXCEPT !.released = TRUE]]
    /\ faults' = faults + used

\* the finally block: the input file is removed when it exists; a failing
\* os.remove raises out of the call and replaces what it was returning
\* (`used`: the faults this step has already taken)
Finally(r, c0, files, used) ==
    LET c == [c0 EXCEPT !.released = TRUE]
        input_path == c.input_path
    IN  IF c.file_id # "" /\ input_path \in files
        THEN \E rm \in (IF faults + used < MaxFaults THEN {"ok", "fail"} ELSE {"ok"}) :
                IF rm = "ok"
                THEN /\ fsFiles' = files \ {input_path}
                     /\ call' = [call EXCEPT ![r] = c]
                     /\ faults' = faults + used
                ELSE /\ fsFiles' = files
                     /\ call' = [call EXCEPT ![r] =
                           [c EXCEPT !.pc = "raised", !.result = NoResult,
                                     !.exc = StrOSError("OSError: remove", input_path)]]
                     /\ faults' = faults + used + 1
        ELSE /\ fsFiles' = files
             /\ call' = [call EXCEPT ![r] = c]
             /\ faults' = faults + used

\* (the output directory made before the format is validated)
ConvertDocumentBeginStagesFirst(r, filename, k) ==
    LET ext == GetFileExtension(filename)
        c1 == [IdleCall EXCEPT !.filename = filename, !.item = k, !.file_id = Uuid4(r, k),
                               !.input_path = InputPath(Uuid4(r, k), ext)]
    IN  /\ fsDirs' = fsDirs \cup {OutputDir(c1.file_id)}
        /\ UNCHANGED <<fsFiles, faults>>
        /\ call' = [call EXCEPT ![r] =
              IF ~ValidateInputFormat(filename)
              THEN [c1 EXCEPT !.pc = "returned",
                        !.result = <<FALSE, <<"Unsupported input format: ">> \o ext, None>>]
              ELSE [c1 EXCEPT !.pc = "staging"]]

\* the call up to its first suspension: validation, uuid4, makedirs
ConvertDocumentBegin(r, filename, k) ==
    LET ext == GetFileExtension(filename)
        c0 == [IdleCall EXCEPT !.filename = filename, !.item = k]
    IN  IF ~ValidateInputFormat(filename)
        THEN /\ call' = [call EXCEPT ![r] =
                    [c0 EXCEPT !.pc = "returned",
                               !.result = <<FALSE, <<"Unsupported input format: ">> \o ext, None>>]]
             /\ UNCHANGED <<fsFiles, fsDirs, faults>>
        ELSE LET c1 == [c0 EXCEPT !.file_id = Uuid4(r, k),
                                  !.input_path = InputPath(Uuid4(r, k), ext)]
             IN  \E mk \in Outcomes :
                    IF mk = "ok"
                    THEN /\ fsDirs' = fsDirs \cup {OutputDir(c1.file_id)}
                         /\ call' = [call EXCEPT ![r] = [c1 EXCEPT !.pc = "staging"]]
                         /\ UNCHANGED <<fsFiles, faults>>
                    ELSE /\ UNCHANGED fsDirs
                         /\ Finally(r, [c1 EXCEPT !.pc = "returned",
                                 !.result = <<FALSE, <<"Conversion failed: ">>
                                              \o StrOSError("makedirs", OutputDir(c1.file_id)), None>>],
                               fsFiles, 1)

\* (the work item submitted before the input file is written)
StageInputSubmitsFirst(r) ==
    LET c == call[r]
        input_path == c.input_path
        output_dir == OutputDir(c.file_id)
    IN  /\ c.pc = "staging"
        /\ job' = [job EXCEPT ![c.file_id] =
              [NoJob EXCEPT !.state = "queued", !.input_path = input_path,
                            !.output_dir = output_dir]]
        /\ queue' = Append(queue, c.file_id)
        /\ \E st \in {"ok"} \cup (IF faults < MaxFaults THEN {"open", "write"} ELSE {}) :
              CASE st = "ok" ->
                    /\ fsFiles' = fsFiles \cup {input_path}
                    /\ call' = [call EXCEPT ![r].pc = "waiting"]
                    /\ UNCHANGED faults
                [] st = "open" ->
                    Finally(r, [c EXCEPT !.pc = "returned",
                            !.result = <<FALSE, <<"Conversion failed: ">>
                                          \o StrOSError("open", input_path), None>>],
                          fsFiles, 1)
                [] st = "write" ->
                    Finally(r, [c EXCEPT !.pc = "returned",
                            !.result = <<FALSE, <<"Conversion failed: ", "write">>, None>>],
                          fsFiles \cup {input_path}, 1)
        /\ UNCHANGED <<workers, req, fsDirs, uploads>>

\* (a staging fault that is not caught: it leaves the call as an exception)
StageInputFaultsPropagate(r) ==
    LET c == call[r]
        input_path == c.input_path
        output_dir == OutputDir(c.file_id)
    IN  /\ c.pc = "staging"
        /\ \E st \in {"ok"} \cup (IF faults < MaxFaults THEN {"open", "write"} ELSE {}) :
              CASE st = "ok" ->
                    /\ fsFiles' = fsFiles \cup {input_path}
                    /\ call' = [call EXCEPT ![r].pc = "waiting"]
                    /\ job' = [job EXCEPT ![c.file_id] =
                          [NoJob EXCEPT !.state = "queued", !.input_path = input_path,
                                        !.output_dir = output_dir]]
                    /\ queue' = Append(queue, c.file_id)
                    /\ UNCHANGED faults
                [] OTHER ->
                    /\ Finally(r, [c EXCEPT !.pc = "raised", !.exc = <<"OSError: ", st>>],
                          IF st = "write" THEN fsFiles \cup {input_path} ELSE fsFiles, 1)
                    /\ UNCHANGED <<job, queue>>
        /\ UNCHANGED <<workers, req, fsDirs, uploads>>

\* (a write that is not awaited: the work item is submitted while the input
\* file is not on disk)
StageInputSubmitsUnwritten(r) ==
    LET c == call[r]
        input_path == c.input_path
        output_dir == OutputDir(c.file_id)
    IN  /\ c.pc = "staging"
        /\ call' = [call EXCEPT ![r].pc = "waiting"]
        /\ job' = [job EXCEPT ![c.file_id] =
              [NoJob EXCEPT !.state = "queued", !.input_path = input_path,
                            !.output_dir = output_dir]]
        /\ queue' = Append(queue, c.file_id)
        /\ UNCHANGED <<workers, req, fsFiles, fsDirs, uploads, faults>>

\* aiofiles.open, write and close, then run_in_executor
StageInput(r) ==
    LET c == call[r]
        input_path == c.input_path
        output_dir == OutputDir(c.file_id)
    IN  /\ c.pc = "staging"
        /\ \E st \in {"ok"} \cup (IF faults < MaxFaults THEN {"open", "write"} ELSE {}) :
              CASE st = "ok" ->
                    /\ fsFiles' = fsFiles \cup {input_path}
                    /\ call' = [call EXCEPT ![r].pc = "waiting"]
                    /\ job' = [job EXCEPT ![c.file_id] =
                          [NoJob EXCEPT !.state = "queued", !.input_path = input_path,
                                        !.output_dir = output_dir]]
                    /\ queue' = Append(queue, c.file_id)
                    /\ UNCHANGED faults
                [] st = "open" ->
                    /\ Finally(r, [c EXCEPT !.pc = "returned",
                            !.result = <<FALSE, <<"Conversion failed: ">>
                                          \o StrOSError("open", input_path), None>>],
                          fsFiles, 1)
                    /\ UNCHANGED <<job, queue>>
                [] st = "write" ->
                    /\ Finally(r, [c EXCEPT !.pc = "returned",
                            !.result = <<FALSE, <<"Conversion failed: ", "write">>, None>>],
                          fsFiles \cup {input_path}, 1)
                    /\ UNCHANGED <<job, queue>>
        /\ UNCHANGED <<workers, req, fsDirs, uploads>>

\* (a success returned without the path of its artifact)
ConvertDocumentResumeDropsPath(r) ==
    LET c == call[r]
        res == job[c.file_id].result
    IN  /\ c.pc = "waiting"
        /\ job[c.file_id].state = "done"
        /\ Finally(r, [c EXCEPT !.pc = "returned",
                  !.result = IF res[1] THEN <<TRUE, <<"Conversion successful">>, None>>
                             ELSE <<FALSE, res[2], None>>],
                fsFiles, 0)
        /\ job' = [job EXCEPT ![c.file_id].state = "collected"]
        /\ UNCHANGED <<workers, req, queue, fsDirs, uploads>>

\* the executor's future is done: the result is mapped and the finally block runs
ConvertDocumentResume(r) ==
    LET c == call[r]
        res == job[c.file_id].result
    IN  /\ c.pc = "waiting"
        /\ job[c.file_id].state = "done"
        /\ Finally(r, [c EXCEPT !.pc = "returned",
                  !.result = IF res[1] THEN <<TRUE, <<"Conversion successful">>, res[3]>>
                             ELSE <<FALSE, res[2], None>>],
                fsFiles, 0)
        /\ job' = [job EXCEPT ![c.file_id].state = "collected"]
        /\ UNCHANGED <<workers, req, queue, fsDirs, uploads>>

\* the task awaiting the call is cancelled at one of its suspension points:
\* CancelledError passes the except clause, the finally block runs, and the
\* handler ends without a response. A work item still queued is cancelled with
\* it; one already running cannot be and runs on. While staging, the file may
\* not be there yet, be there, or be created by the writing thread only after
\* the finally block looked for it (`late`).
CancelCall(r, late) ==
    LET c == call[r]
        input_path == c.input_path
        files == IF c.pc = "staging" /\ late = "written" THEN fsFiles \cup {input_path}
                 ELSE fsFiles
    IN  /\ c.pc \in {"staging", "waiting"}
        /\ faults < MaxFaults
        /\ c.pc = "waiting" => late = "none"
        /\ IF late = "late"
           THEN /\ fsFiles' = fsFiles \cup {input_path}
                /\ call' = [call EXCEPT ![r].pc = "cancelled", ![r].released = TRUE]
                /\ faults' = faults + 1
           ELSE Finally(r, [c EXCEPT !.pc = "cancelled"], files, 1)
        /\ job' = IF c.pc = "waiting" /\ job[c.file_id].state = "queued"
                  THEN [job EXCEPT ![c.file_id].state = "cancelled"]
                  ELSE job
        /\ req' = [req EXCEPT ![r].pc = "cancelled"]
        /\ UNCHANGED <<workers, queue, fsDirs, uploads>>

(***************************************************************************)
(* The executor: ThreadPoolExecutor(max_workers=config.workers)            *)
(***************************************************************************)
\* (a pool that keeps one worker back)
PoolStartKeepsOneBack(i) ==
    /\ queue # <<>>
    /\ i = Head(queue)
    /\ Cardinality(Busy) + 1 < workers
    /\ queue' = Tail(queue)
    /\ job' = [job EXCEPT
          ![i].state = IF job[i].state = "cancelled" THEN "dropped" ELSE "running",
          ![i].slot = (job[i].state # "cancelled"),
          ![i].behind = Cardinality({ n \in 2..Len(queue) : job[queue[n]].state = "queued" })]
    /\ UNCHANGED <<workers, req, call, fsFiles, fsDirs, uploads, faults>>

\* (an executor that starts a thread for every work item)
PoolStartUnbounded(i) ==
    /\ queue # <<>>
    /\ i = Head(queue)
    /\ queue' = Tail(queue)
    /\ job' = [job EXCEPT
          ![i].state = IF job[i].state = "cancelled" THEN "dropped" ELSE "running",
          ![i].slot = (job[i].state # "cancelled"),
          ![i].behind = Cardinality({ n \in 2..Len(queue) : job[queue[n]].state = "queued" })]
    /\ UNCHANGED <<workers, req, call, fsFiles, fsDirs, uploads, faults>>

\* (a pool that hands out the newest work item first)
PoolStartNewestFirst(i) ==
    /\ queue # <<>>
    /\ i = queue[Len(queue)]
    /\ Cardinality(Busy) < workers
    /\ queue' = SubSeq(queue, 1, Len(queue) - 1)
    /\ job' = [job EXCEPT
          ![i].state = IF job[i].state = "cancelled" THEN "dropped" ELSE "running",
          ![i].slot = (job[i].state # "cancelled"),
          ![i].behind = Cardinality({ n \in 1..(Len(queue) - 1) : job[queue[n]].state = "queued" })]
    /\ UNCHANGED <<workers, req, call, fsFiles, fsDirs, uploads, faults>>

\* a free worker thread takes the oldest work item and runs it, unless its
\* future was cancelled while it waited
\* (`behind`: the work items left waiting in the queue at that moment, kept
\* while the item runs)
PoolStart(i) ==
    /\ queue # <<>>
    /\ i = Head(queue)
    /\ Cardinality(Busy) < workers
    /\ queue' = Tail(queue)
    /\ job' = [job EXCEPT
          ![i].state = IF job[i].state = "cancelled" THEN "dropped" ELSE "running",
          ![i].slot = (job[i].state # "cancelled"),
          ![i].behind = Cardinality({ n \in 2..Len(queue) : job[queue[n]].state = "queued" })]
    /\ UNCHANGED <<workers, req, call, fsFiles, fsDirs, uploads, faults>>

\* Path(output_dir).glob("*.<output_format>")
\* (a glob of the staging root instead of the output directory)
GlobStagingRoot(files, output_dir) ==
    { p \in files : Dirname(p) = Dirname(output_dir)
                     /\ EndsWith(Basename(p), <<".">> \o output_format) }

\* Path(output_dir).glob("*.<output_format>")
Glob(files, output_dir) ==
    { p \in files : Dirname(p) = output_dir /\ EndsWith(Basename(p), <<".">> \o output_format) }

\* (a timeout that still looks for an output file)
RunLibreofficeConversionTimeoutGlob(exit, matches, f, stderr) ==
    CASE exit = "spawn_error" -> <<FALSE, <<"Conversion error: ", "No such file">>, None>>
      [] exit \in {"exit0", "timeout"} ->
            IF matches # {} THEN <<TRUE, <<"Conversion successful">>, f>>
            ELSE <<FALSE, <<"No output file generated">>, None>>
      [] OTHER -> <<FALSE, <<"LibreOffice error: ">> \o stderr, None>>

\* (exit status 0 taken for success without looking for the output file)
RunLibreofficeConversionNoGlob(exit, matches, f, stderr) ==
    CASE exit = "timeout" -> <<FALSE, <<"Conversion timeout">>, None>>
      [] exit = "spawn_error" -> <<FALSE, <<"Conversion error: ", "No such file">>, None>>
      [] exit = "exit0" -> <<TRUE, <<"Conversion successful">>, f>>
      [] OTHER -> <<FALSE, <<"LibreOffice error: ">> \o stderr, None>>

\* (a failure message that leaves the tool's stderr out)
RunLibreofficeConversionDropsStderr(exit, matches, f, stderr) ==
    CASE exit = "timeout" -> <<FALSE, <<"Conversion timeout">>, None>>
      [] exit = "spawn_error" -> <<FALSE, <<"Conversion error: ", "No such file">>, None>>
      [] exit = "exit0" ->
            IF matches # {} THEN <<TRUE, <<"Conversion successful">>, f>>
            ELSE <<FALSE, <<"No output file generated">>, None>>
      [] OTHER -> <<FALSE, <<"LibreOffice error: ">>, None>>

\* (a success that forgets the path of the output file)
RunLibreofficeConversionNoPath(exit, matches, f, stderr) ==
    CASE exit = "timeout" -> <<FALSE, <<"Conversion timeout">>, None>>
      [] exit = "spawn_error" -> <<FALSE, <<"Conversion error: ", "No such file">>, None>>
      [] exit = "exit0" ->
            IF matches # {} THEN <<TRUE, <<"Conversion successful">>, None>>
            ELSE <<FALSE, <<"No output file generated">>, None>>
      [] OTHER -> <<FALSE, <<"LibreOffice error: ">> \o stderr, None>>

\* the tuple _run_libreoffice_conversion returns for a run of the tool
RunLibreofficeConversion(exit, matches, f, stderr) ==
    CASE exit = "timeout" -> <<FALSE, <<"Conversion timeout">>, None>>
      [] exit = "spawn_error" -> <<FALSE, <<"Conversion error: ", "No such file">>, None>>
      [] exit = "exit0" ->
            IF matches # {} THEN <<TRUE, <<"Conversion successful">>, f>>
            ELSE <<FALSE, <<"No output file generated">>, None>>
      [] OTHER -> <<FALSE, <<"LibreOffice error: ">> \o stderr, None>>

\* subprocess.run(cmd, timeout=...): the processes of the invocation that are
\* alive when it returns or raises. The tool's own process has exited, or was
\* killed and waited for when the timeout expired; processes the tool started
\* are not signalled.
SubprocessRun(exit, children) ==
    LET alive == IF exit = "timeout"
                 THEN {"tool"} \cup (IF children THEN {"child"} ELSE {})
                 ELSE {}
    IN  alive \ {"tool"}

\* (a worker thread that is lost when its invocation times out)
ToolFinishKeepsSlotOnTimeout(i, exit, written, stderr, children) ==
    LET j == job[i]
        files == fsFiles \cup { Append(j.output_dir, ToolFileName(j.input_path, n)) : n \in written }
        matches == Glob(files, j.output_dir)
    IN  /\ j.state = "running"
        /\ fsFiles' = files
        /\ \E f \in (IF matches = {} THEN {None} ELSE matches) :
              job' = [job EXCEPT ![i] =
                  [j EXCEPT !.state = "done", !.exit = exit, !.matches = matches,
                            !.stderr = stderr, !.slot = (exit = "timeout"), !.behind = 0,
                            !.procs = SubprocessRun(exit, children),
                            !.result = RunLibreofficeConversion(exit, matches, f, stderr)]]
        /\ UNCHANGED <<workers, req, call, queue, fsDirs, uploads, faults>>

\* DocumentConverter._run_libreoffice_conversion on a worker thread: the tool
\* runs (leaves `written` in the output directory and `stderr` on its error
\* stream), then the result
ToolFinish(i, exit, written, stderr, children) ==
    LET j == job[i]
        files == fsFiles \cup { Append(j.output_dir, ToolFileName(j.input_path, n)) : n \in written }
        matches == Glob(files, j.output_dir)
    IN  /\ j.state = "running"
        /\ fsFiles' = files
        /\ \E f \in (IF matches = {} THEN {None} ELSE matches) :
              job' = [job EXCEPT ![i] =
                  [j EXCEPT !.state = "done", !.exit = exit, !.matches = matches,
                            !.stderr = stderr, !.slot = FALSE, !.behind = 0,
                            !.procs = SubprocessRun(exit, children),
                            !.result = RunLibreofficeConversion(exit, matches, f, stderr)]]
        /\ UNCHANGED <<workers, req, call, queue, fsDirs, uploads, faults>>

(***************************************************************************)
(* Background tasks: cleanup_file, cleanup_dir                             *)
(***************************************************************************)
\* os.listdir
Listdir(files, dirs, d) == { p \in files \cup dirs : Dirname(p) = d }

\* cleanup_file: the files left on disk (a failing os.remove is logged)
CleanupFile(files, file_path, rm) ==
    IF file_path \in files /\ rm = "ok" THEN files \ {file_path} ELSE files

\* (a cleanup_dir that removes the directory whatever it holds)
CleanupDirForce(files, dirs, dir_path, rm) ==
    IF dir_path \in dirs /\ rm = "ok" THEN dirs \ {dir_path} ELSE dirs

\* cleanup_dir: the directories left on disk; only an empty directory is
\* removed (a failing os.rmdir is logged)
CleanupDir(files, dirs, dir_path, rm) ==
    IF dir_path \in dirs /\ Listdir(files, dirs, dir_path) = {} /\ rm = "ok"
    THEN dirs \ {dir_path}
    ELSE dirs

\* (the directory's removal scheduled before the file's)
CleanupTasksDirFirst(output_file) ==
    << [fn |-> "cleanup_dir", path |-> Dirname(output_file)],
       [fn |-> "cleanup_file", path |-> output_file] >>

\* background_tasks.add_task(cleanup_file, ...), add_task(cleanup_dir, ...)
CleanupTasks(output_file) ==
    << [fn |-> "cleanup_file", path |-> output_file],
       [fn |-> "cleanup_dir", path |-> Dirname(output_file)] >>

\* the response's background tasks run one after the other, in the order added
RunBackgroundTask(r) ==
    LET rq == req[r]
        t == Head(rq.bg)
    IN  /\ rq.pc = "background"
        /\ rq.bg # <<>>
        /\ \E rm \in Outcomes :
              LET files == IF t.fn = "cleanup_file" THEN CleanupFile(fsFiles, t.path, rm)
                           ELSE fsFiles
                  dirs == IF t.fn = "cleanup_dir" THEN CleanupDir(fsFiles, fsDirs, t.path, rm)
                          ELSE fsDirs
                  \* the removal is attempted
                  tried == IF t.fn = "cleanup_file" THEN t.path \in fsFiles
                           ELSE t.path \in fsDirs /\ Listdir(fsFiles, fsDirs, t.path) = {}
                  \* it raises: logger.warning (os.remove of a directory always does)
                  warned == \/ rm = "fail" /\ tried
                            \/ t.fn = "cleanup_file" /\ t.path \in fsDirs
              IN  /\ rm = "fail" => tried
                  /\ fsFiles' = files
                  /\ fsDirs' = dirs
                  /\ faults' = IF rm = "fail" THEN faults + 1 ELSE faults
                  /\ req' = [req EXCEPT
                        ![r].bg = Tail(rq.bg),
                        ![r].ran = Append(@, t),
                        ![r].warnings = IF warned THEN @ + 1 ELSE @,
                        ![r].pc = IF Tail(rq.bg) = <<>> THEN "done" ELSE "background"]
        /\ UNCHANGED <<workers, call, job, queue, uploads>>

(***************************************************************************)
(* POST /convert                                                           *)
(***************************************************************************)
TooLarge == <<"File too large. Maximum size: ", ToString(max_file_size \div (1024 * 1024)), ".0MB">>

\* (a handler that cannot run while the tool does: the invocation is made on
\* the request-handling thread)
ConvertEndpointBlockedByTool(r) ==
    /\ Running = {}
    /\ Arrives(r)
    /\ uploads < MaxUploads
    /\ uploads' = uploads + 1
    /\ \E u \in UploadSet :
          LET rq == [req[r] EXCEPT !.kind = "convert", !.nfiles = 1, !.files = <<u>>]
          IN  IF u.size > max_file_size
              THEN /\ req' = [req EXCEPT ![r] =
                         [rq EXCEPT !.pc = "done", !.status = 413, !.detail = TooLarge]]
                   /\ UNCHANGED <<call, fsFiles, fsDirs, faults>>
              ELSE IF u.filename = NoFilename
              THEN /\ req' = [req EXCEPT ![r] =
                         [rq EXCEPT !.pc = "done", !.status = 400,
                                    !.detail = <<"No filename provided">>]]
                   /\ UNCHANGED <<call, fsFiles, fsDirs, faults>>
              ELSE /\ req' = [req EXCEPT ![r] = [rq EXCEPT !.pc = "awaiting"]]
                   /\ ConvertDocumentBegin(r, u.filename, 1)
    /\ UNCHANGED <<workers, job, queue>>

\* (a size check that also rejects a payload of exactly max_file_size bytes)
ConvertEndpointSizeInclusive(r) ==
    /\ Arrives(r)
    /\ uploads < MaxUploads
    /\ uploads' = uploads + 1
    /\ \E u \in UploadSet :
          LET rq == [req[r] EXCEPT !.kind = "convert", !.nfiles = 1, !.files = <<u>>]
          IN  IF u.size >= max_file_size
              THEN /\ req' = [req EXCEPT ![r] =
                         [rq EXCEPT !.pc = "done", !.status = 413, !.detail = TooLarge]]
                   /\ UNCHANGED <<call, fsFiles, fsDirs, faults>>
              ELSE IF u.filename = NoFilename
              THEN /\ req' = [req EXCEPT ![r] =
                         [rq EXCEPT !.pc = "done", !.status = 400,
                                    !.detail = <<"No filename provided">>]]
                   /\ UNCHANGED <<call, fsFiles, fsDirs, faults>>
              ELSE /\ req' = [req EXCEPT ![r] = [rq EXCEPT !.pc = "awaiting"]]
                   /\ ConvertDocumentBegin(r, u.filename, 1)
    /\ UNCHANGED <<workers, job, queue>>

\* the handler up to the first suspension of converter.convert_document
ConvertEndpoint(r) ==
    /\ Arrives(r)
    /\ uploads < MaxUploads
    /\ uploads' = uploads + 1
    /\ \E u \in UploadSet :
          LET rq == [req[r] EXCEPT !.kind = "convert", !.nfiles = 1, !.files = <<u>>]
          IN  IF u.size > max_file_size
              THEN /\ req' = [req EXCEPT ![r] =
                         [rq EXCEPT !.pc = "done", !.status = 413, !.detail = TooLarge]]
                   /\ UNCHANGED <<call, fsFiles, fsDirs, faults>>
              ELSE IF u.filename = NoFilename
              THEN /\ req' = [req EXCEPT ![r] =
                         [rq EXCEPT !.pc = "done", !.status = 400,
                                    !.detail = <<"No filename provided">>]]
                   /\ UNCHANGED <<call, fsFiles, fsDirs, faults>>
              ELSE /\ req' = [req EXCEPT ![r] = [rq EXCEPT !.pc = "awaiting"]]
                   /\ ConvertDocumentBegin(r, u.filename, 1)
    /\ UNCHANGED <<workers, job, queue>>

\* (a handler whose catch-all clause also takes the 400 of a failure result)
ConvertRespondFailureAs500(r) ==
    LET rq == req[r]
        c == call[r]
        output_file == c.result[3]
    IN  /\ rq.pc = "awaiting"
        /\ rq.kind = "convert"
        /\ c.pc \in {"returned", "raised"}
        /\ req' = [req EXCEPT ![r] =
              IF c.pc = "raised" \/ ~c.result[1]
              THEN [rq EXCEPT !.pc = "done", !.status = 500,
                              !.detail = <<"Internal server error">>]
              ELSE IF output_file = None \/ output_file \notin fsFiles \cup fsDirs
              THEN [rq EXCEPT !.pc = "done", !.status = 500,
                              !.detail = <<"Conversion failed - no output file">>]
              ELSE [rq EXCEPT !.pc = "streaming", !.status = 200]]
        /\ UNCHANGED <<workers, call, job, queue, fsFiles, fsDirs, uploads, faults>>

\* (a handler that schedules the cleanup itself, before the response streams)
ConvertRespondSchedulesCleanup(r) ==
    LET rq == req[r]
        c == call[r]
        output_file == c.result[3]
    IN  /\ rq.pc = "awaiting"
        /\ rq.kind = "convert"
        /\ c.pc \in {"returned", "raised"}
        /\ req' = [req EXCEPT ![r] =
              IF c.pc = "raised"
              THEN [rq EXCEPT !.pc = "done", !.status = 500,
                              !.detail = <<"Internal server error">>]
              ELSE IF ~c.result[1]
              THEN [rq EXCEPT !.pc = "done", !.status = 400, !.detail = c.result[2]]
              ELSE IF output_file = None \/ output_file \notin fsFiles \cup fsDirs
              THEN [rq EXCEPT !.pc = "done", !.status = 500,
                              !.detail = <<"Conversion failed - no output file">>]
              ELSE [rq EXCEPT !.pc = "streaming", !.status = 200,
                              !.bg = CleanupTasks(output_file)]]
        /\ UNCHANGED <<workers, call, job, queue, fsFiles, fsDirs, uploads, faults>>

\* the handler after converter.convert_document: an error response, or the
\* streaming response is returned
ConvertRespond(r) ==
    LET rq == req[r]
        c == call[r]
        output_file == c.result[3]
    IN  /\ rq.pc = "awaiting"
        /\ rq.kind = "convert"
        /\ c.pc \in {"returned", "raised"}
        /\ req' = [req EXCEPT ![r] =
              IF c.pc = "raised"
              THEN [rq EXCEPT !.pc = "done", !.status = 500,
                              !.detail = <<"Internal server error">>]
              ELSE IF ~c.result[1]
              THEN [rq EXCEPT !.pc = "done", !.status = 400, !.detail = c.result[2]]
              ELSE IF output_file = None \/ output_file \notin fsFiles \cup fsDirs
              THEN [rq EXCEPT !.pc = "done", !.status = 500,
                              !.detail = <<"Conversion failed - no output file">>]
              ELSE [rq EXCEPT !.pc = "streaming", !.status = 200]]
        /\ UNCHANGED <<workers, call, job, queue, fsFiles, fsDirs, uploads, faults>>

\* stream_file: the artifact is read to its end and the generator's finally
\* block adds the cleanup tasks; when the read fails the response is aborted
\* and its background tasks never run
StreamFile(r) ==
    LET rq == req[r]
        output_file == call[r].result[3]
    IN  /\ rq.pc = "streaming"
        /\ \E rd \in Outcomes :
              IF rd = "ok" /\ output_file \in fsFiles
              THEN /\ req' = [req EXCEPT ![r] =
                         [rq EXCEPT !.pc = "background", !.streamed = TRUE,
                                    !.bg = rq.bg \o CleanupTasks(output_file)]]
                   /\ UNCHANGED faults
              ELSE /\ req' = [req EXCEPT ![r] =
                         [rq EXCEPT !.pc = "done",
                                    !.bg = rq.bg \o CleanupTasks(output_file)]]
                   /\ faults' = IF rd = "fail" THEN faults + 1 ELSE faults
        /\ UNCHANGED <<workers, call, job, queue, fsFiles, fsDirs, uploads>>

(***************************************************************************)
(* POST /convert/batch                                                     *)
(***************************************************************************)
\* (a first loop without checks: every file gets a coroutine)
ReadFilesAwaitsAll(files, k, acc) ==
    [acc EXCEPT !.tasks = @ \o [n \in 1..(Len(files) - k + 1) |->
                                  [filename |-> files[n + k - 1].filename, item |-> n + k - 1]]]

\* the first loop: an oversized or nameless file gets its result entry at once,
\* the others a convert_document coroutine that has not started
\* (`item`: the position of the file in the request, for reference)
RECURSIVE ReadFiles(_, _, _)
ReadFiles(files, k, acc) ==
    IF k > Len(files) THEN acc
    ELSE LET u == files[k]
         IN  IF u.size > max_file_size
             THEN ReadFiles(files, k + 1, [acc EXCEPT !.results = Append(@,
                      [filename |-> u.filename, success |-> FALSE,
                       message |-> TooLarge, item |-> k])])
             ELSE IF u.filename = NoFilename
             THEN ReadFiles(files, k + 1, [acc EXCEPT !.results = Append(@,
                      [filename |-> <<"unknown">>, success |-> FALSE,
                       message |-> <<"No filename provided">>, item |-> k])])
             ELSE ReadFiles(files, k + 1, [acc EXCEPT !.tasks = Append(@,
                      [filename |-> u.filename, item |-> k])])

\* the response is returned once no coroutine is left to await
BatchReturn(rq) ==
    IF rq.tasks = <<>>
    THEN [rq EXCEPT !.status = 200, !.pc = IF rq.bg = <<>> THEN "done" ELSE "background"]
    ELSE rq

\* (a limit that already rejects a batch of exactly 2 x workers files)
BatchEndpointOffByOne(r) ==
    /\ Arrives(r)
    /\ \E n \in 1..(workers * 2 + 1) :
          IF n >= workers * 2
          THEN /\ req' = [req EXCEPT ![r] =
                     [req[r] EXCEPT !.kind = "batch", !.nfiles = n, !.pc = "done",
                                    !.status = 400,
                                    !.detail = <<"Too many files. Maximum: ", ToString(workers * 2)>>]]
               /\ UNCHANGED uploads
          ELSE /\ uploads + n <= MaxUploads
               /\ uploads' = uploads + n
               /\ \E files \in [1..n -> BatchUploadSet] :
                     LET read == ReadFiles(files, 1, [results |-> <<>>, tasks |-> <<>>])
                     IN  req' = [req EXCEPT ![r] =
                            BatchReturn([req[r] EXCEPT !.kind = "batch", !.nfiles = n,
                                         !.files = files, !.pc = "awaiting",
                                         !.results = read.results, !.tasks = read.tasks])]
    /\ UNCHANGED <<workers, call, job, queue, fsFiles, fsDirs, faults>>

\* the handler up to the second loop
BatchEndpoint(r) ==
    /\ Arrives(r)
    /\ \E n \in 1..(workers * 2 + 1) :
          IF n > workers * 2
          THEN /\ req' = [req EXCEPT ![r] =
                     [req[r] EXCEPT !.kind = "batch", !.nfiles = n, !.pc = "done",
                                    !.status = 400,
                                    !.detail = <<"Too many files. Maximum: ", ToString(workers * 2)>>]]
               /\ UNCHANGED uploads
          ELSE /\ uploads + n <= MaxUploads
               /\ uploads' = uploads + n
               /\ \E files \in [1..n -> BatchUploadSet] :
                     LET read == ReadFiles(files, 1, [results |-> <<>>, tasks |-> <<>>])
                     IN  req' = [req EXCEPT ![r] =
                            BatchReturn([req[r] EXCEPT !.kind = "batch", !.nfiles = n,
                                         !.files = files, !.pc = "awaiting",
                                         !.results = read.results, !.tasks = read.tasks])]
    /\ UNCHANGED <<workers, call, job, queue, fsFiles, fsDirs, faults>>

\* the second loop awaits the next coroutine: only now does it start
BatchAwait(r) ==
    LET rq == req[r]
    IN  /\ rq.pc = "awaiting"
        /\ rq.kind = "batch"
        /\ call[r].pc = "idle"
        /\ rq.tasks # <<>>
        /\ ConvertDocumentBegin(r, Head(rq.tasks).filename, Head(rq.tasks).item)
        /\ UNCHANGED <<workers, req, job, queue, uploads>>

\* (a failed item ends the loop: the remaining coroutines are never awaited)
BatchCollectAbortsOnFailure(r) ==
    LET rq == req[r]
        c == call[r]
        entry == IF c.pc = "raised"
                 THEN [filename |-> c.filename, success |-> FALSE,
                       message |-> <<"Conversion failed: ">> \o c.exc, item |-> c.item]
                 ELSE [filename |-> c.filename, success |-> c.result[1],
                       message |-> c.result[2], item |-> c.item]
        bg == IF c.pc = "returned" /\ c.result[3] # None
              THEN rq.bg \o CleanupTasks(c.result[3]) ELSE rq.bg
    IN  /\ rq.pc = "awaiting"
        /\ rq.kind = "batch"
        /\ c.pc \in {"returned", "raised"}
        /\ req' = [req EXCEPT ![r] =
              BatchReturn([rq EXCEPT !.results = Append(@, entry), !.bg = bg,
                                     !.tasks = IF entry.success THEN Tail(@) ELSE <<>>])]
        /\ call' = [call EXCEPT ![r] = IdleCall]
        /\ UNCHANGED <<workers, job, queue, fsFiles, fsDirs, uploads, faults>>

\* (a second loop that schedules no cleanup)
BatchCollectSchedulesNothing(r) ==
    LET rq == req[r]
        c == call[r]
        entry == IF c.pc = "raised"
                 THEN [filename |-> c.filename, success |-> FALSE,
                       message |-> <<"Conversion failed: ">> \o c.exc, item |-> c.item]
                 ELSE [filename |-> c.filename, success |-> c.result[1],
                       message |-> c.result[2], item |-> c.item]
    IN  /\ rq.pc = "awaiting"
        /\ rq.kind = "batch"
        /\ c.pc \in {"returned", "raised"}
        /\ req' = [req EXCEPT ![r] =
              BatchReturn([rq EXCEPT !.results = Append(@, entry), !.tasks = Tail(@)])]
        /\ call' = [call EXCEPT ![r] = IdleCall]
        /\ UNCHANGED <<workers, job, queue, fsFiles, fsDirs, uploads, faults>>

\* the awaited coroutine has ended: its result entry is appended and the
\* cleanup of its artifact is scheduled
BatchCollect(r) ==
    LET rq == req[r]
        c == call[r]
        entry == IF c.pc = "raised"
                 THEN [filename |-> c.filename, success |-> FALSE,
                       message |-> <<"Conversion failed: ">> \o c.exc, item |-> c.item]
                 ELSE [filename |-> c.filename, success |-> c.result[1],
                       message |-> c.result[2], item |-> c.item]
        bg == IF c.pc = "returned" /\ c.result[3] # None
              THEN rq.bg \o CleanupTasks(c.result[3]) ELSE rq.bg
    IN  /\ rq.pc = "awaiting"
        /\ rq.kind = "batch"
        /\ c.pc \in {"returned", "raised"}
        /\ req' = [req EXCEPT ![r] =
              BatchReturn([rq EXCEPT !.results = Append(@, entry), !.bg = bg,
                                     !.tasks = Tail(@)])]
        /\ call' = [call EXCEPT ![r] = IdleCall]
        /\ UNCHANGED <<workers, job, queue, fsFiles, fsDirs, uploads, faults>>

(***************************************************************************)
(* Specification.                                                          *)
(***************************************************************************)
Next ==
    \/ \E r \in Requests : ConvertEndpoint(r)
    \/ \E r \in Requests : StageInput(r)
    \/ \E i \in FileIds : PoolStart(i)
    \/ \E i \in FileIds, run \in ToolRuns : ToolFinish(i, run.exit, run.written, run.stderr, run.children)
    \/ \E r \in Requests : ConvertDocumentResume(r)
    \/ \E r \in Requests, late \in {"none", "written", "late"} : CancelCall(r, late)
    \/ \E r \in Requests : ConvertRespond(r)
    \/ \E r \in Requests : StreamFile(r)
    \/ \E r \in Requests : RunBackgroundTask(r)
    \/ \E r \in Requests : BatchEndpoint(r)
    \/ \E r \in Requests : BatchAwait(r)
    \/ \E r \in Requests : BatchCollect(r)

Spec == Init /\ [][Next]_vars

\* The steps of a job: the event loop resumes a coroutine that can go on, a
\* free worker thread takes the next work item, the external tool exits or is
\* timed out.
JobStep ==
    \/ \E r \in Requests : StageInput(r)
    \/ \E r \in Requests : ConvertDocumentResume(r)
    \/ \E i \in FileIds : PoolStart(i)
    \/ \E i \in FileIds, run \in ToolRuns : ToolFinish(i, run.exit, run.written, run.stderr, run.children)

\* while some job can take a step, some job does
Fairness == WF_vars(JobStep)

\* concurrent /convert requests alone, under that scheduling
NextConvert ==
    \/ \E r \in Requests : ConvertEndpoint(r)
    \/ \E r \in Requests : StageInput(r)
    \/ \E i \in FileIds : PoolStart(i)
    \/ \E i \in FileIds, run \in ToolRuns : ToolFinish(i, run.exit, run.written, run.stderr, run.children)
    \/ \E r \in Requests : ConvertDocumentResume(r)
    \/ \E r \in Requests, late \in {"none", "written", "late"} : CancelCall(r, late)
    \/ \E r \in Requests : ConvertRespond(r)
    \/ \E r \in Requests : StreamFile(r)
    \/ \E r \in Requests : RunBackgroundTask(r)

FairSpec == Init /\ [][NextConvert]_vars /\ Fairness

(***************************************************************************)
(* The cleanup functions on their own: any small filesystem under          *)
(* temp_dir, and one cleanup task on any path of it (also one that is not  *)
(* there, or is of the other kind).                                        *)
(***************************************************************************)
CleanupDirPaths == { OutputDir("1"), OutputDir("2") }

CleanupChildren(d) ==
    { Append(d, <<"1", "_input", ".">> \o output_format), Append(d, <<"l", "o", "g">>) }

CleanupPaths == CleanupDirPaths \cup UNION { CleanupChildren(d) : d \in CleanupDirPaths }

InitCleanup ==
    /\ workers = 1
    /\ call = [r \in Requests |-> IdleCall]
    /\ job = [i \in FileIds |-> NoJob]
    /\ queue = <<>>
    /\ uploads = 0
    /\ faults = 0
    /\ \E ds \in SUBSET CleanupDirPaths :
          /\ fsDirs = {temp_dir} \cup ds
          /\ fsFiles \in SUBSET UNION { CleanupChildren(d) : d \in ds }
    /\ \E fn \in {"cleanup_file", "cleanup_dir"}, p \in CleanupPaths :
          req = [r \in Requests |->
                   IF r = 1
                   THEN [NewRequest EXCEPT !.pc = "background", !.kind = "batch",
                                           !.bg = << [fn |-> fn, path |-> p] >>]
                   ELSE [NewRequest EXCEPT !.pc = "done"]]

NextCleanup == \E r \in Requests : RunBackgroundTask(r)

SpecCleanup == InitCleanup /\ [][NextCleanup]_vars

(***************************************************************************)
(* convert_document called on its own, as the unit tests call it, with any *)
(* filename of up to MaxNameLen characters.                                 *)
(***************************************************************************)
NameChars == {"a", ".", "/", "d", "o", "c", "D"}

ExtFilenames == UNION { [1..n -> NameChars] : n \in 0..MaxNameLen }

InitExt ==
    /\ workers = 1
    /\ req = [r \in Requests |-> [NewRequest EXCEPT !.pc = "done"]]
    /\ call = [r \in Requests |-> IdleCall]
    /\ job = [i \in FileIds |-> NoJob]
    /\ queue = <<>>
    /\ fsFiles = {}
    /\ fsDirs = {temp_dir}
    /\ uploads = 0
    /\ faults = 0

NextExt ==
    \E filename \in ExtFilenames :
        /\ call[1].pc = "idle"
        /\ ConvertDocumentBegin(1, filename, 1)
        /\ UNCHANGED <<workers, req, job, queue, uploads>>

SpecExt == InitExt /\ [][NextExt]_vars

(***************************************************************************)
(* convert_document called directly by concurrent callers, as the unit      *)
(* tests call it, also with a file whose extension is the output format.    *)
(***************************************************************************)
DirectFilenames == { <<"a", ".", "p", "d", "f">>, <<"a", ".", "D", "O", "C">> }

InitDirect ==
    /\ workers \in WorkerCounts
    /\ req = [r \in Requests |-> [NewRequest EXCEPT !.pc = "done"]]
    /\ call = [r \in Requests |-> IdleCall]
    /\ job = [i \in FileIds |-> NoJob]
    /\ queue = <<>>
    /\ fsFiles = {}
    /\ fsDirs = {temp_dir}
    /\ uploads = 0
    /\ faults = 0

NextDirect ==
    \/ \E r \in Requests, filename \in DirectFilenames :
          /\ call[r].pc = "idle"
          /\ ConvertDocumentBegin(r, filename, 1)
          /\ UNCHANGED <<workers, req, job, queue, uploads>>
    \/ \E r \in Requests : StageInput(r)
    \/ \E i \in FileIds : PoolStart(i)
    \/ \E i \in FileIds, run \in ToolRuns : ToolFinish(i, run.exit, run.written, run.stderr, run.children)
    \/ \E r \in Requests : ConvertDocumentResume(r)

SpecDirect == InitDirect /\ [][NextDirect]_vars

(***************************************************************************)
(* Properties.                                                             *)
(***************************************************************************)
\* everything on disk that was staged for a file_id: its input file, its
\* output directory and what lies in it
StagedPaths(file_id) ==
    { p \in fsFiles \cup fsDirs : Len(p) >= 2 /\ p[2][1] = file_id }

CallInputPath(r) == InputPath(call[r].file_id, GetFileExtension(call[r].filename))

\* the call of request r has returned the result of a finished tool run
ReturnedFromRun(r) ==
    /\ call[r].pc = "returned"
    /\ call[r].file_id # ""
    /\ job[call[r].file_id].state = "collected"

\* C1: at every instant at most config.workers invocations of
\* _run_libreoffice_conversion are executing, whatever the mix of /convert
\* and /convert/batch requests.
C1_AtMostWorkersRunning == Cardinality(Running) <= workers

\* the pool is full and another invocation waits in the queue
C1_Witness ==
    /\ Cardinality(Running) = workers
    /\ queue # <<>>
    /\ job[Head(queue)].state = "queued"

\* C2 (as claimed): once a request has ended (its response sent and its
\* background tasks run), nothing staged for its jobs is left on disk: no
\* input file, no output directory, no artifact.
C2_AllStagedStateRemoved ==
    \A r \in Requests :
        req[r].pc = "done" => \A k \in Items : StagedPaths(Uuid4(r, k)) = {}

\* C3: after a convert_document call has returned, whatever its outcome, the
\* input file staged for it is not on disk.
C3_InputGoneAfterReturn ==
    \A r \in Requests :
        call[r].pc = "returned" =>
            /\ call[r].released \/ call[r].file_id = ""
            /\ call[r].file_id # "" => CallInputPath(r) \notin fsFiles

\* a call has returned success: its input file was staged, and is gone
C3_Witness ==
    \E r \in Requests :
        /\ call[r].pc = "returned"
        /\ call[r].result[1]
        /\ call[r].file_id # ""
        /\ CallInputPath(r) \notin fsFiles

\* C4 (as claimed): a failing deletion of the staged input file is never
\* raised to the caller of convert_document: no call ends with an exception
\* in place of its result tuple.
C4_DeletionFailureNotRaised ==
    \A r \in Requests : call[r].pc # "raised"

\* C5: a call whose filename has a lower-cased extension outside the
\* allow-list (or no extension) returns at once
\* (False, "Unsupported input format: <ext>", None); it creates no file and
\* no directory and submits nothing to the executor.
C5_UnsupportedFormatStagesNothing ==
    [][ \A r \in Requests :
          ( /\ call[r].pc = "idle"
            /\ call'[r].pc # "idle"
            /\ GetFileExtension(call'[r].filename) \notin input_formats )
          => /\ call'[r].pc = "returned"
             /\ call'[r].result =
                   <<FALSE, <<"Unsupported input format: ">>
                               \o GetFileExtension(call'[r].filename), None>>
             /\ call'[r].filename = <<"a", ".", "e", "x", "e">>
                   => call'[r].result[2] = <<"Unsupported input format: ", "e", "x", "e">>
             /\ call'[r].filename = <<"a">>
                   => call'[r].result[2] = <<"Unsupported input format: ">>
             /\ call'[r].file_id = ""
             /\ fsFiles' = fsFiles
             /\ fsDirs' = fsDirs
             /\ queue' = queue
             /\ job' = job ]_vars

\* a call with a filename without extension has returned the failure
C5_Witness ==
    \E r \in Requests :
        /\ call[r].pc = "returned"
        /\ call[r].filename = <<"a">>
        /\ call[r].result = <<FALSE, <<"Unsupported input format: ">>, None>>

\* every job that has passed validation ends: its call leaves the staging and
\* waiting states for good, by returning, by raising or by being cancelled,
\* and its input-file release step has run
EveryCallEnds ==
    \A r \in Requests :
        (call[r].pc \in {"staging", "waiting"})
            ~> (call[r].pc \in {"returned", "raised", "cancelled"} /\ call[r].released)

\* C6 (as claimed): every job that has passed validation reaches Released:
\* with a tool that exits or is timed out and a pool that is scheduled, its
\* convert_document call eventually returns and its input-file release step
\* has run. (A call whose caller was cancelled is left out of the count.)
C6_EveryCallReturns ==
    \A r \in Requests :
        (call[r].pc \in {"staging", "waiting"})
            ~> (call[r].pc \in {"returned", "cancelled"} /\ call[r].released)

\* C8: a cleanup task leaves a directory that holds anything, and all its
\* contents, as they are; a task on a path that does not exist changes
\* nothing; cleanup_dir removes nothing but its own, empty, directory; and
\* the task ends (nothing is raised) in every case.
C8_CleanupOnlyEmptyDirs ==
    [][ \A r \in Requests :
          (req[r].pc = "background" /\ req[r].bg # <<>> /\ req'[r].bg = Tail(req[r].bg))
          => LET t == Head(req[r].bg)
                 held == Listdir(fsFiles, fsDirs, t.path)
             IN  /\ req'[r].pc \in {"background", "done"}
                 /\ (t.fn = "cleanup_dir" /\ held # {})
                       => fsDirs' = fsDirs /\ fsFiles' = fsFiles
                 /\ t.path \notin fsFiles \cup fsDirs
                       => fsDirs' = fsDirs /\ fsFiles' = fsFiles
                 /\ t.fn = "cleanup_dir"
                       => /\ fsFiles' = fsFiles
                          /\ fsDirs' # fsDirs
                                => /\ t.path \in fsDirs
                                   /\ held = {}
                                   /\ fsDirs' = fsDirs \ {t.path}
                 /\ t.fn = "cleanup_file"
                       => fsDirs' = fsDirs /\ fsFiles' \in {fsFiles, fsFiles \ {t.path}} ]_vars

\* cleanup_dir has run on a directory that held a file: both are still there
C8_Witness ==
    \E r \in Requests :
        /\ req[r].ran # <<>>
        /\ LET t == req[r].ran[Len(req[r].ran)]
           IN  /\ t.fn = "cleanup_dir"
               /\ t.path \in fsDirs
               /\ Listdir(fsFiles, fsDirs, t.path) # {}

\* a cleanup task has run on a path that does not exist
C8_WitnessMissing ==
    \E r \in Requests :
        /\ req[r].ran # <<>>
        /\ req[r].ran[Len(req[r].ran)].path \notin fsFiles \cup fsDirs
        /\ Dirname(req[r].ran[Len(req[r].ran)].path) \notin fsDirs

\* the artifact a /convert request streamed, and whether anything else lies
\* in its directory
Artifact(r) == call[r].result[3]
NoOtherFile(r) == Listdir(fsFiles, fsDirs, Dirname(Artifact(r))) \subseteq {Artifact(r)}
Streamed(r) ==
    /\ req[r].kind = "convert"
    /\ req[r].pc = "done"
    /\ req[r].streamed
    /\ req[r].bg = <<>>

C9_TimeoutIsFailure ==
    \A r \in Requests :
        (ReturnedFromRun(r) /\ job[call[r].file_id].exit = "timeout") =>
            call[r].result = <<FALSE, <<"Conversion timeout">>, None>>

\* a call has returned after a timeout that left an artifact behind
C9_Witness ==
    \E r \in Requests :
        /\ ReturnedFromRun(r)
        /\ job[call[r].file_id].exit = "timeout"
        /\ job[call[r].file_id].matches # {}
        /\ job[call[r].file_id].matches \subseteq fsFiles

\* C10: when the tool exited with status 0 and the output directory held no
\* file with the output extension, convert_document returns
\* (False, "No output file generated", None).
C10_NoOutputIsFailure ==
    \A r \in Requests :
        ( /\ ReturnedFromRun(r)
          /\ job[call[r].file_id].exit = "exit0"
          /\ job[call[r].file_id].matches = {} )
        => call[r].result = <<FALSE, <<"No output file generated">>, None>>

\* a call has returned after an exit 0 that left only a stray file
C10_Witness ==
    \E r \in Requests :
        /\ ReturnedFromRun(r)
        /\ job[call[r].file_id].exit = "exit0"
        /\ job[call[r].file_id].matches = {}
        /\ Listdir(fsFiles, fsDirs, job[call[r].file_id].output_dir) # {}

\* C11: when the tool exited with a non-zero status, convert_document returns
\* (False, "LibreOffice error: <stderr>", None): the message is the prefix
\* followed by the whole text the tool wrote to stderr.
C11_NonZeroExitCarriesStderr ==
    \A r \in Requests :
        (ReturnedFromRun(r) /\ job[call[r].file_id].exit = "exit1") =>
            /\ call[r].result =
                  <<FALSE, <<"LibreOffice error: ">> \o job[call[r].file_id].stderr, None>>
            /\ job[call[r].file_id].stderr \in StderrTexts

\* a call has returned after a non-zero exit with a text on stderr
C11_Witness ==
    \E r \in Requests :
        /\ ReturnedFromRun(r)
        /\ job[call[r].file_id].exit = "exit1"
        /\ Len(job[call[r].file_id].stderr) = 1
        /\ call[r].result[2] = <<"LibreOffice error: ", "e">>

\* C12 (as claimed): the diagnostic text in a failure message is cut to a
\* bound that does not grow with the tool's output: a stderr text of the
\* greatest length is never carried whole, the message stays shorter than the
\* prefix followed by that text.
C12_FailureMessageBounded ==
    \A r \in Requests :
        (ReturnedFromRun(r) /\ job[call[r].file_id].exit = "exit1") =>
            Len(call[r].result[2]) < 1 + MaxStderrLen

\* C13: when the filename is allowed, staging succeeded, the tool exited with
\* status 0 and a file with the output extension lies in the job's output
\* directory, convert_document returns
\* (True, "Conversion successful", path of that file).
C13_SuccessReturnsArtifact ==
    \A r \in Requests :
        ( /\ ReturnedFromRun(r)
          /\ job[call[r].file_id].exit = "exit0"
          /\ job[call[r].file_id].matches # {} )
        => /\ ValidateInputFormat(call[r].filename)
           /\ call[r].result[1]
           /\ call[r].result[2] = <<"Conversion successful">>
           /\ call[r].result[3] \in job[call[r].file_id].matches
           /\ Dirname(call[r].result[3]) = OutputDir(call[r].file_id)
           /\ EndsWith(Basename(call[r].result[3]), <<".">> \o output_format)

\* a call has returned success with the path of an artifact that is on disk,
\* next to a stray file
C13_Witness ==
    \E r \in Requests :
        /\ ReturnedFromRun(r)
        /\ job[call[r].file_id].exit = "exit0"
        /\ call[r].result[1]
        /\ call[r].result[3] \in fsFiles
        /\ Cardinality(Listdir(fsFiles, fsDirs, OutputDir(call[r].file_id))) = 2

\* the call of request r has returned for a job that was given a file_id and
\* never reached the executor
ReturnedFromStaging(r) ==
    /\ call[r].pc = "returned"
    /\ call[r].file_id # ""
    /\ job[call[r].file_id].state = "none"

\* C14: when making the output directory or writing the staged input file
\* fails, convert_document returns (False, "Conversion failed: <reason>", None)
\* with the text of that fault, and the external tool is never invoked for the
\* job: a call returns without a work item exactly when it returns that
\* failure, and the reason names makedirs exactly when the directory is not
\* there.
C14_StagingFailureReported ==
    \A r \in Requests :
        /\ ReturnedFromStaging(r) =>
              /\ \E reason \in { StrOSError("makedirs", OutputDir(call[r].file_id)),
                                  StrOSError("open", CallInputPath(r)),
                                  <<"write">> } :
                    call[r].result = <<FALSE, <<"Conversion failed: ">> \o reason, None>>
              /\ (call[r].result[2][2] = "makedirs")
                    <=> (OutputDir(call[r].file_id) \notin fsDirs)
        /\ ( /\ call[r].pc = "returned"
              /\ call[r].result[2] # <<>>
              /\ call[r].result[2][1] = "Conversion failed: " )
           => /\ ReturnedFromStaging(r)
              /\ \A n \in 1..Len(queue) : queue[n] # call[r].file_id

\* a call has returned the failure of a write that had already created the
\* input file
C14_Witness ==
    \E r \in Requests :
        /\ ReturnedFromStaging(r)
        /\ call[r].result = <<FALSE, <<"Conversion failed: ", "write">>, None>>
        /\ queue = <<>>

\* C15: every fault of staging or of the tool's invocation (the executable
\* missing, any exception in the worker) becomes a (False, message, None)
\* result: a call that returns after such a fault returns a failure without a
\* path, and the only exception that ever leaves a call is that of the
\* release step, whose input file is then still on disk.
C15_FaultsBecomeResults ==
    \A r \in Requests :
        /\ (ReturnedFromRun(r) /\ job[call[r].file_id].exit = "spawn_error") =>
              call[r].result = <<FALSE, <<"Conversion error: ", "No such file">>, None>>
        /\ ReturnedFromStaging(r) =>
              /\ ~call[r].result[1]
              /\ call[r].result[2] # <<>>
              /\ call[r].result[3] = None
        /\ call[r].pc = "raised" =>
              /\ call[r].exc = StrOSError("OSError: remove", CallInputPath(r))
              /\ call[r].released
              /\ CallInputPath(r) \in fsFiles

\* a call has returned the failure of a tool that could not be started
C15_Witness ==
    \E r \in Requests :
        /\ ReturnedFromRun(r)
        /\ job[call[r].file_id].exit = "spawn_error"
        /\ ~call[r].result[1]

\* C16: a /convert/batch request is rejected as a whole with HTTP 400 exactly
\* when it holds more than 2 x workers files; a rejected batch has no file
\* read, nothing staged and nothing submitted to the pool; a batch of exactly
\* 2 x workers files is accepted and all its files are read.
C16_BatchLimit ==
    [][ \A r \in Requests :
          (req[r].pc = "new" /\ req'[r].kind = "batch")
          => /\ (req'[r].status = 400) <=> (req'[r].nfiles > workers * 2)
             /\ req'[r].nfiles > workers * 2
                   => /\ req'[r].pc = "done"
                      /\ req'[r].detail = <<"Too many files. Maximum: ", ToString(workers * 2)>>
                      /\ req'[r].files = <<>>
                      /\ req'[r].results = <<>>
                      /\ req'[r].tasks = <<>>
                      /\ uploads' = uploads
                      /\ UNCHANGED <<call, job, queue, fsFiles, fsDirs>>
             /\ req'[r].nfiles <= workers * 2
                   => /\ Len(req'[r].files) = req'[r].nfiles
                      /\ uploads' = uploads + req'[r].nfiles
                      /\ Len(req'[r].results) + Len(req'[r].tasks) = req'[r].nfiles ]_vars

\* a batch of 2 x workers + 1 files was rejected, and one of 2 x workers
\* files was accepted and has been answered
C16_Witness ==
    \E r1, r2 \in Requests :
        /\ req[r1].kind = "batch"
        /\ req[r1].nfiles = workers * 2 + 1
        /\ req[r1].status = 400
        /\ req[r2].kind = "batch"
        /\ req[r2].nfiles = workers * 2
        /\ req[r2].status = 200

\* a batch that was accepted and has been answered
BatchAnswered(r) == req[r].kind = "batch" /\ req[r].status = 200

\* the result entries of request r that report its k-th file
EntriesOf(r, k) == { n \in 1..Len(req[r].results) : req[r].results[n].item = k }

\* C17: in an accepted batch one item's failure (a failure result or an
\* exception) never aborts the others: the response holds exactly one entry
\* for every submitted file, under that file's name, and every item that was
\* to be converted was attempted and is reported with the outcome of its own
\* job.
C17_BatchIsolatesFailures ==
    \A r \in Requests :
        BatchAnswered(r) =>
            /\ Len(req[r].results) = req[r].nfiles
            /\ \A k \in 1..req[r].nfiles :
                  /\ Cardinality(EntriesOf(r, k)) = 1
                  /\ \A n \in EntriesOf(r, k) :
                        LET e == req[r].results[n]
                            u == req[r].files[k]
                            j == job[Uuid4(r, k)]
                        IN  /\ e.filename = IF u.filename = NoFilename /\ u.size <= max_file_size
                                            THEN <<"unknown">> ELSE u.filename
                            /\ (u.size <= max_file_size /\ u.filename # NoFilename
                                   /\ ValidateInputFormat(u.filename))
                                  => \/ j.state = "collected"
                                     \/ /\ j.state = "none"
                                        /\ e.message[1] = "Conversion failed: "
                            /\ e.success => j.state = "collected"
                            /\ j.state = "collected"
                                  => \/ e.success = j.result[1] /\ e.message = j.result[2]
                                     \/ /\ ~e.success
                                        /\ e.message = <<"Conversion failed: ">>
                                              \o StrOSError("OSError: remove", j.input_path)

\* a batch has been answered in which a conversion failed and a later one
\* succeeded
C17_Witness ==
    \E r \in Requests :
        /\ BatchAnswered(r)
        /\ \E m, n \in 1..Len(req[r].results) :
              /\ m < n
              /\ ~req[r].results[m].success
              /\ job[Uuid4(r, req[r].results[m].item)].state = "collected"
              /\ req[r].results[n].success

\* C18 (as claimed): the results of a batch response are in submission order:
\* the i-th entry reports the i-th submitted file.
C18_ResultsInSubmissionOrder ==
    \A r \in Requests :
        BatchAnswered(r) =>
            \A n \in 1..Len(req[r].results) : req[r].results[n].item = n

\* the files of request r whose tool invocation is submitted and not finished
InFlight(r) == { k \in Items : job[Uuid4(r, k)].state \in {"queued", "running"} }

\* the conversions of one batch run one at a time
BatchOneAtATime ==
    \A r \in Requests : req[r].kind = "batch" => Cardinality(InFlight(r)) <= 1

\* C19 (as claimed): the batch endpoint fans its conversions out: by the time
\* one of them is submitted to the pool, every other valid item of the batch
\* has been started too, so that up to min(k, workers) of them can be in
\* flight together; none waits for an earlier one to finish.
C19_BatchFansOut ==
    \A r \in Requests :
        (req[r].kind = "batch" /\ req[r].pc = "awaiting" /\ InFlight(r) # {}) =>
            \A n \in 2..Len(req[r].tasks) :
                ~ValidateInputFormat(req[r].tasks[n].filename)

\* C20: a /convert request whose payload is longer than max_file_size
\* (megabytes x 1024 x 1024 bytes) is answered 413, and one without a
\* filename 400, both before convert_document is called and with nothing
\* touched on disk or in the pool; a payload of exactly max_file_size bytes
\* is not rejected for its size.
C20_RejectedBeforeAnyWork ==
    [][ \A r \in Requests :
          (req[r].pc = "new" /\ req'[r].kind = "convert")
          => LET u == req'[r].files[1]
                 untouched == /\ req'[r].pc = "done"
                              /\ call' = call
                              /\ UNCHANGED <<job, queue, fsFiles, fsDirs>>
             IN  /\ max_file_size = 10 * 1024 * 1024
                 /\ u.size > max_file_size
                       => /\ req'[r].status = 413
                          /\ req'[r].detail = TooLarge
                          /\ untouched
                 /\ (u.size <= max_file_size /\ u.filename = NoFilename)
                       => /\ req'[r].status = 400
                          /\ req'[r].detail = <<"No filename provided">>
                          /\ untouched
                 /\ u.size <= max_file_size => req'[r].status # 413
                 /\ (u.size <= max_file_size /\ u.filename # NoFilename)
                       => /\ req'[r].pc = "awaiting"
                          /\ call'[r].filename = u.filename ]_vars

\* one request was answered 413 and another, of exactly max_file_size bytes
\* and without a filename, 400
C20_Witness ==
    \E r1, r2 \in Requests :
        /\ req[r1].kind = "convert"
        /\ req[r1].status = 413
        /\ req[r1].files[1].size = max_file_size + 1
        /\ req[r2].kind = "convert"
        /\ req[r2].status = 400
        /\ req[r2].files[1].size = max_file_size
        /\ req[r2].files[1].filename = NoFilename
        /\ fsFiles = {} /\ fsDirs = {temp_dir}

\* C21: work items beyond the pool's capacity wait, and they are started in
\* the order in which they were submitted: an item starts only while a worker
\* is free, and never while an item submitted before it is still queued.
C21_FifoStart ==
    [][ \A i \in FileIds :
          (job[i].state = "queued" /\ job'[i].state = "running")
          => /\ Cardinality(Busy) < workers
             /\ \A n \in 1..Len(queue) :
                   queue[n] = i => \A m \in 1..(n - 1) : job[queue[m]].state # "queued" ]_vars

\* an item runs that was started while another was queued behind it, and
\* that one still waits for the worker
C21_Witness ==
    \E i \in FileIds :
        /\ job[i].state = "running"
        /\ job[i].behind >= 1
        /\ Cardinality(Busy) = workers
        /\ queue # <<>>
        /\ job[Head(queue)].state = "queued"

\* C22: a worker is released after every outcome of an invocation (success,
\* tool failure, no output, timeout, exception): a work item holds a worker
\* exactly while it runs, so that no worker is held once every submitted
\* invocation has finished; and a queued work item is eventually taken from
\* the queue.
C22_SlotReleased ==
    /\ [](\A i \in FileIds : job[i].slot <=> (job[i].state = "running"))
    /\ []((\A i \in FileIds : job[i].state \notin {"queued", "running"}) => Busy = {})
    /\ \A i \in FileIds : (job[i].state = "queued") ~> (job[i].state # "queued")

\* with one worker, two invocations have finished, one of them by the
\* timeout, and the worker is free
C22_Witness ==
    /\ workers = 1
    /\ Busy = {}
    /\ \E i, k \in FileIds :
          /\ i # k
          /\ job[i].state \in {"done", "collected"}
          /\ job[i].exit = "timeout"
          /\ job[k].state \in {"done", "collected"}
          /\ job[k].exit \in {"exit0", "exit1", "spawn_error"}

\* some invocation is queued or running in the pool
PoolAtWork == \E i \in FileIds : job[i].state \in {"queued", "running"}

\* C23: the tool never runs on the request-handling thread: while invocations
\* are queued or running, the handler of a request that arrives can run (and
\* a request rejected for its format is answered in that step), and the step
\* in which an invocation ends is not a step of any handler or call.
C23_HandlersNotBlocked ==
    /\ [](\A r \in Requests :
             (PoolAtWork /\ Arrives(r) /\ uploads < MaxUploads)
                => ENABLED ConvertEndpoint(r))
    /\ [][ \A i \in FileIds :
             (job[i].state = "running" /\ job'[i].state # "running")
                => req' = req /\ call' = call ]_vars
    /\ [][ \A r \in Requests :
             (PoolAtWork /\ req[r].pc = "new" /\ req'[r].kind = "convert"
                /\ ~ValidateInputFormat(req'[r].files[1].filename)
                /\ req'[r].files[1].filename # NoFilename
                /\ req'[r].files[1].size <= max_file_size)
                => call'[r].pc = "returned" /\ job' = job ]_vars

\* a request has been rejected for its format while the invocation of an
\* earlier request occupies the only worker
C23_Witness ==
    /\ workers = 1
    /\ job[Uuid4(1, 1)].state = "running"
    /\ call[1].pc = "waiting"
    /\ req[2].kind = "convert"
    /\ req[2].pc = "done"
    /\ req[2].status = 400
    /\ call[2].result[2] = <<"Unsupported input format: ", "e", "x", "e">>

\* C24 (as claimed): a work item the pool has accepted runs to completion or
\* to its timeout: it is never cancelled or dropped while it waits in the
\* queue, also when the caller that awaits it is cancelled.
C24_AcceptedTaskRuns ==
    \A i \in FileIds : job[i].state \notin {"cancelled", "dropped"}

\* C25 (as claimed): once the outcome of an invocation has been produced, a
\* timeout included, no process of that invocation is alive: the tool's
\* process and every process it started have been terminated.
C25_NoProcessLeft ==
    \A i \in FileIds : job[i].state \in {"done", "collected"} => job[i].procs = {}

\* the job a path on disk was staged for
Owner(p) == p[2][1]

\* the paths a step creates or removes
Touched ==
    ((fsFiles' \ fsFiles) \cup (fsFiles \ fsFiles'))
        \cup ((fsDirs' \ fsDirs) \cup (fsDirs \ fsDirs'))

\* C26: staged paths are partitioned per job. Two calls never hold the same
\* file_id, input path or output directory, and no input path lies in an
\* output directory; the file_id a call is given was never given before
\* (no work item and no path on disk belongs to it); and every step touches
\* the paths of one job only, its own: the release step the call's input
\* file, the tool the job's output directory, a cleanup task the path it
\* was scheduled with.
C26_PathsPartitioned ==
    /\ [](\A r1, r2 \in Requests :
             (r1 # r2 /\ call[r1].file_id # "" /\ call[r2].file_id # "")
                => /\ call[r1].file_id # call[r2].file_id
                   /\ CallInputPath(r1) # CallInputPath(r2)
                   /\ OutputDir(call[r1].file_id) # OutputDir(call[r2].file_id)
                   /\ Dirname(CallInputPath(r1)) # OutputDir(call[r2].file_id)
                   /\ Dirname(CallInputPath(r1)) # OutputDir(call[r1].file_id))
    /\ [][
            /\ \A r \in Requests :
                (call[r].file_id = "" /\ call'[r].file_id # "")
                   => /\ job[call'[r].file_id].state = "none"
                      /\ StagedPaths(call'[r].file_id) = {}
                      /\ \A r2 \in Requests : call[r2].file_id # call'[r].file_id
            /\ Cardinality({ Owner(p) : p \in Touched }) <= 1
            /\ \A r \in Requests :
                (call[r].pc \in {"staging", "waiting"} /\ call'[r].pc # call[r].pc)
                   => \A p \in Touched : Owner(p) = call[r].file_id
            /\ \A i \in FileIds :
                (job[i].state = "running" /\ job'[i].state = "done")
                   => \A p \in Touched : Owner(p) = i /\ Dirname(p) = job[i].output_dir
            /\ \A r \in Requests :
                (req[r].pc = "background" /\ req'[r].bg # req[r].bg)
                   => Touched \subseteq {Head(req[r].bg).path} ]_vars

\* two calls hold their staged state side by side: both input files and both
\* output directories are on disk
C26_Witness ==
    \E r1, r2 \in Requests :
        /\ r1 # r2
        /\ call[r1].pc = "waiting"
        /\ call[r2].pc = "waiting"
        /\ {CallInputPath(r1), CallInputPath(r2)} \subseteq fsFiles
        /\ {OutputDir(call[r1].file_id), OutputDir(call[r2].file_id)} \subseteq fsDirs
        /\ Cardinality({CallInputPath(r1), CallInputPath(r2)}) = 2

Upper(c) ==
    CASE c = "d" -> "D"
      [] c = "o" -> "O"
      [] c = "c" -> "C"
      [] c = "a" -> "A"
      [] OTHER -> c

\* the filename with the characters at the positions S in upper case and the
\* others in lower case
Recase(f, S) == [i \in 1..Len(f) |-> IF i \in S THEN Upper(f[i]) ELSE Lower(f[i])]

\* the text after the last dot of s, empty when s has no dot
AfterLastDot(s) ==
    LET dots == { i \in 1..Len(s) : s[i] = "." }
    IN  IF dots = {} THEN <<>>
        ELSE SubSeq(s, (CHOOSE i \in dots : \A k \in dots : k <= i) + 1, Len(s))

\* the final path component of f: its last run of characters between
\* separators that is not a lone dot
IsComponent(f, i, k) ==
    /\ i <= k
    /\ i = 1 \/ f[i - 1] = "/"
    /\ k = Len(f) \/ f[k + 1] = "/"
    /\ \A n \in i..k : f[n] # "/"
    /\ SubSeq(f, i, k) # <<".">>

FinalComponent(f) ==
    LET comps == { ik \in (1..Len(f)) \X (1..Len(f)) : IsComponent(f, ik[1], ik[2]) }
    IN  IF comps = {} THEN <<>>
        ELSE LET last == CHOOSE ik \in comps : \A o \in comps : o[2] <= ik[2]
             IN  SubSeq(f, last[1], last[2])

\* the lower-cased text after the last dot of the final component, empty
\* when nothing stands before that dot
ExtensionOfName(f) ==
    LET n == FinalComponent(f)
    IN  IF AfterLastDot(n) = <<>> \/ Len(AfterLastDot(n)) = Len(n) - 1
        THEN <<>>
        ELSE LowerStr(AfterLastDot(n))

\* the call on its own has been given a filename and has passed validation
ExtAccepted == call[1].file_id # ""

\* C27 (as claimed): validation is case-insensitive and goes by the
\* lower-cased text after the last dot of the filename (empty when there is
\* no dot): a filename is accepted exactly when that text is in the
\* allow-list, and a rejection names that text.
C27_ExtensionAfterLastDot ==
    call[1].pc # "idle" =>
        LET f == call[1].filename
        IN  /\ ExtAccepted <=> (LowerStr(AfterLastDot(f)) \in input_formats)
            /\ ~ExtAccepted =>
                  call[1].result =
                     <<FALSE, <<"Unsupported input format: ">> \o LowerStr(AfterLastDot(f)), None>>
            /\ \A S \in SUBSET (1..Len(f)) : ValidateInputFormat(Recase(f, S)) = ExtAccepted

\* C27 (amended): validation is case-insensitive and goes by the lower-cased
\* text after the last dot of the filename's final path component, empty
\* when that component has no dot or nothing before its last dot: a filename
\* is accepted exactly when that text is in the allow-list, a rejection
\* names that text, and every upper/lower-case variant of the filename gets
\* the same decision.
C27_ExtensionOfFinalComponent ==
    call[1].pc # "idle" =>
        LET f == call[1].filename
        IN  /\ ExtAccepted <=> (ExtensionOfName(f) \in input_formats)
            /\ ~ExtAccepted =>
                  call[1].result =
                     <<FALSE, <<"Unsupported input format: ">> \o ExtensionOfName(f), None>>
            /\ \A S \in SUBSET (1..Len(f)) : ValidateInputFormat(Recase(f, S)) = ExtAccepted

\* a filename with an upper-case letter in its extension has been accepted
C27_Witness ==
    /\ call[1].filename = <<"a", ".", "D", "o", "c">>
    /\ ExtAccepted
    /\ call[1].pc = "staging"

\* the /convert requests that have their response status
Answered == { r \in Requests : req[r].kind = "convert" /\ req[r].status # 0 }

\* C28: for /convert, a failure result returned by the call is answered with
\* status 400 and the call's message as detail; 413 is the answer of the size
\* check and of nothing else; 400 is otherwise only the answer to a missing
\* filename; 500 is the answer only when the call raised or the artifact of a
\* successful call is missing.
C28_StatusFollowsResult ==
    \A r \in Answered :
        LET rq == req[r]
            c == call[r]
            failed == c.pc = "returned" /\ ~c.result[1]
        IN  /\ failed => rq.status = 400 /\ rq.detail = c.result[2]
            /\ rq.status = 413 <=> rq.files[1].size > max_file_size
            /\ rq.status = 400 =>
                  \/ failed
                  \/ /\ rq.files[1].filename = NoFilename
                     /\ rq.detail = <<"No filename provided">>
                     /\ c.pc = "idle"
            /\ rq.status = 500 =>
                  \/ c.pc = "raised" /\ rq.detail = <<"Internal server error">>
                  \/ /\ c.pc = "returned" /\ c.result[1]
                     /\ c.result[3] \notin fsFiles \cup fsDirs
                     /\ rq.detail = <<"Conversion failed - no output file">>
            /\ rq.status \in {200, 400, 413, 500}

\* a timeout of the tool has been answered with 400 and "Conversion timeout"
C28_Witness ==
    \E r \in Answered :
        /\ req[r].status = 400
        /\ req[r].detail = <<"Conversion timeout">>
        /\ job[call[r].file_id].exit = "timeout"

\* the texts of the paths of the staging area: the staging root and the
\* input path and output directory of every job
InternalPathTexts ==
    {ToString(temp_dir)}
        \cup { ToString(OutputDir(i)) : i \in FileIds }
        \cup { ToString(InputPath(i, ext)) : i \in FileIds, ext \in input_formats }

\* the message holds an internal path
Exposes(message) == \E n \in 1..Len(message) : message[n] \in InternalPathTexts

\* C29 (as claimed): no response exposes an internal path: neither the
\* detail of an error response nor the message of a batch result entry holds
\* the input path or output directory of a job or the staging root.
C29_NoInternalPathInResponse ==
    \A r \in Requests :
        /\ ~Exposes(req[r].detail)
        /\ \A n \in 1..Len(req[r].results) : ~Exposes(req[r].results[n].message)

\* C30 (as claimed): the input file of a job is on disk for as long as the
\* job's invocation of the tool is queued or running, also when the caller is
\* cancelled meanwhile.
C30_InputKeptWhileInFlight ==
    \A i \in FileIds :
        job[i].state \in {"queued", "running"} => job[i].input_path \in fsFiles

\* the /convert requests whose call returned an artifact
WithArtifact == { r \in Requests : /\ req[r].kind = "convert"
                                   /\ call[r].pc = "returned"
                                   /\ call[r].result[1] }

EntriesAdded(r) ==
    { p \in Listdir(fsFiles, fsDirs, temp_dir) : Owner(p) = call[r].file_id }

\* a /convert request has been answered and has no background task left to run
Completed(r) ==
    /\ req[r].kind = "convert"
    /\ req[r].pc = "done"
    /\ req[r].status # 0

\* C32 (as claimed): once a /convert request has completed and its background
\* tasks have run, the staging root holds at most one entry more than before
\* the request, whatever the outcome.
C32_AtMostOneEntryLeft ==
    \A r \in Requests : Completed(r) => Cardinality(EntriesAdded(r)) <= 1

\* C33: a job's invocation is submitted to the pool only after its output
\* directory exists and its input file was written to its end and closed: the
\* step that queues a work item is the staging step of the call that owns it,
\* that step met no fault of open or write, and when it ends the job's input
\* file and output directory are on disk; no work item exists for a call that
\* is still staging.
C33_SubmittedAfterStaging ==
    /\ [](\A r \in Requests :
            call[r].pc = "staging" =>
                /\ job[call[r].file_id].state = "none"
                /\ OutputDir(call[r].file_id) \in fsDirs)
    /\ [][\A i \in FileIds :
            (job[i].state # job'[i].state /\ job'[i].state = "queued") =>
                /\ job[i].state = "none"
                /\ \E r \in Requests :
                      /\ call[r].pc = "staging"
                      /\ call[r].file_id = i
                      /\ call'[r].pc = "waiting"
                      /\ job'[i].input_path = call[r].input_path
                      /\ job'[i].output_dir = OutputDir(i)
                /\ faults' = faults
                /\ job'[i].input_path \in fsFiles'
                /\ job'[i].output_dir \in fsDirs'
                /\ queue' = Append(queue, i)]_vars

\* a work item has just been submitted: it is the last of the queue, its
\* input file and output directory on disk
C33_Witness ==
    \E i \in FileIds :
        /\ queue # <<>>
        /\ queue[Len(queue)] = i
        /\ job[i].state = "queued"
        /\ job[i].input_path \in fsFiles
        /\ job[i].output_dir \in fsDirs

\* a (success, message, path) tuple is well-formed
WellFormed(result) ==
    /\ result[1] <=> result[3] # None
    /\ result[1] => result[2] = <<"Conversion successful">>
    /\ ~result[1] => result[3] = None /\ result[2] # <<"Conversion successful">>

\* C34: every tuple that convert_document returns is well-formed: success is
\* True exactly when the path is not null, a True result carries the message
\* "Conversion successful" and a failure carries a null path. The same holds
\* of the tuple of every finished run of _run_libreoffice_conversion.
C34_ResultWellFormed ==
    /\ \A r \in Requests : call[r].pc = "returned" => WellFormed(call[r].result)
    /\ \A i \in FileIds : job[i].state \in {"done", "collected"} => WellFormed(job[i].result)

\* one call has returned a success with its path, another a failure
C34_Witness ==
    \E r1, r2 \in Requests :
        /\ call[r1].pc = "returned" /\ call[r1].result[1] /\ call[r1].result[3] # None
        /\ call[r2].pc = "returned" /\ ~call[r2].result[1] /\ call[r2].result[3] = None

\* the calls that have returned a success
Succeeded == { r \in Requests : call[r].pc = "returned" /\ call[r].result[1] }

\* C35: the artifact path of a successful conversion lies in the job's own
\* output directory and ends with "." and the output format; it is not the
\* input file of the job, also when the input's extension is the output
\* format, and it is neither the input file of another job nor a path in
\* another job's output directory.
C35_ArtifactInOwnDir ==
    \A r \in Succeeded :
        LET output_file == call[r].result[3]
        IN  /\ Dirname(output_file) = OutputDir(call[r].file_id)
            /\ EndsWith(Basename(output_file), <<".">> \o output_format)
            /\ output_file # call[r].input_path
            /\ \A i \in FileIds :
                  /\ output_file # job[i].input_path
                  /\ i # call[r].file_id => Dirname(output_file) # OutputDir(i)
            /\ \A ext \in input_formats, i \in FileIds : output_file # InputPath(i, ext)

\* a file whose extension is the output format has been converted: the
\* artifact has the name of the input file and lies in the output directory,
\* while another job has its own files on disk
C35_Witness ==
    \E r \in Succeeded :
        /\ GetFileExtension(call[r].filename) = output_format
        /\ Basename(call[r].result[3]) = Basename(call[r].input_path)
        /\ call[r].result[3] \in fsFiles
        /\ \E i \in FileIds :
              /\ i # call[r].file_id
              /\ job[i].state # "none"
              /\ Listdir(fsFiles, fsDirs, OutputDir(i)) # {}

\* the files of batch r that are reported as converted
SuccessItems(r) ==
    { k \in 1..req[r].nfiles : \E n \in EntriesOf(r, k) : req[r].results[n].success }

\* the artifact of the k-th file of request r
ItemArtifact(r, k) == job[Uuid4(r, k)].result[3]

\* cleanup_file of the artifact and, next after it, cleanup_dir of its
\* directory are among the background tasks of request r, run or still to run
Scheduled(r, output_file) ==
    LET tasks == req[r].ran \o req[r].bg
    IN  \E n \in 1..(Len(tasks) - 1) :
            /\ tasks[n] = [fn |-> "cleanup_file", path |-> output_file]
            /\ tasks[n + 1] = [fn |-> "cleanup_dir", path |-> Dirname(output_file)]

\* a batch has been answered and has no background task left to run
BatchCompleted(r) == BatchAnswered(r) /\ req[r].pc = "done"

RejectedItems(r) ==
    { k \in 1..Len(req[r].files) :
        req[r].files[k].size > max_file_size \/ req[r].files[k].filename = NoFilename }

\* C37: in an accepted batch a file that is too large or has no filename gets
\* its failure entry in the handler's first loop, convert_document is never
\* called for it and nothing is staged or submitted for it; the other files
\* are converted all the same: in the response each has its own entry, that
\* of its call.
C37_RejectedItemsSkipped ==
    \A r \in Requests :
        req[r].kind = "batch" =>
            /\ \A k \in RejectedItems(r) :
                  /\ Cardinality(EntriesOf(r, k)) = 1
                  /\ \A n \in EntriesOf(r, k) :
                        /\ ~req[r].results[n].success
                        /\ req[r].results[n].message =
                              IF req[r].files[k].size > max_file_size THEN TooLarge
                              ELSE <<"No filename provided">>
                  /\ \A n \in 1..Len(req[r].tasks) : req[r].tasks[n].item # k
                  /\ call[r].pc # "idle" => call[r].item # k
                  /\ job[Uuid4(r, k)].state = "none"
                  /\ StagedPaths(Uuid4(r, k)) = {}
            /\ BatchAnswered(r) =>
                  \A k \in (1..req[r].nfiles) \ RejectedItems(r) :
                      /\ Cardinality(EntriesOf(r, k)) = 1
                      /\ \A n \in EntriesOf(r, k) :
                            LET e == req[r].results[n]
                                j == job[Uuid4(r, k)]
                            IN  /\ e.filename = req[r].files[k].filename
                                /\ IF ~ValidateInputFormat(e.filename)
                                   THEN e.message[1] = "Unsupported input format: "
                                   ELSE \/ j.state = "collected"
                                        \/ e.message[1] = "Conversion failed: "
                                /\ e.success => j.state = "collected" /\ j.result[1]

\* a batch has been answered whose first file was too large, whose second had
\* no filename, and whose third was converted
C37_Witness ==
    \E r \in Requests :
        /\ BatchAnswered(r)
        /\ req[r].nfiles = 3
        /\ req[r].files[1].size > max_file_size
        /\ req[r].files[2].filename = NoFilename
        /\ \E n \in EntriesOf(r, 3) : req[r].results[n].success
        /\ job[Uuid4(r, 3)].state = "collected"

====
